---- MODULE Spec2Model ----
(***************************************************************************)
(* Model of PipelineDeNoticias (src/NicolasBarra_TP1.py): the Delta Lake   *)
(* tables, the logs directory, and the operations guardar_en_delta_lake,   *)
(* procesar_y_enriquecer_datos, agregar_datos, the two extractors and      *)
(* ejecutar_pipeline.                                                      *)
(*                                                                         *)
(* A DataFrame is [cols |-> set of column names, rows |-> sequence of      *)
(* records].  The columns the operations read are modelled: uuid, title    *)
(* (held as its character length), description, source for news;           *)
(* source_id, domain for sources; the presence of fecha_particion and      *)
(* categories is kept in cols.                                             *)
(***************************************************************************)
EXTENDS Integers, Sequences, FiniteSets, TLC

VARIABLES
    tablas,        \* ruta -> Delta table stored at that path
    logs,          \* metadata records written under RUTA_LOGS since the pipeline
                   \* object was built, oldest first (older files are never touched)
    pc,            \* position of the caller (ejecutar_pipeline or the test harness)
    df_noticias,   \* local of ejecutar_pipeline
    df_fuentes,    \* local of ejecutar_pipeline
    df_procesado,  \* value returned by procesar_y_enriquecer_datos
    df_agregado,   \* local of agregar_datos: the last aggregate computed
    resultados,    \* <<>> or <<summary returned by ejecutar_pipeline>>
    ultima         \* the last operation called and what happened in it

vars == <<tablas, logs, pc, df_noticias, df_fuentes, df_procesado, df_agregado,
          resultados, ultima>>

-----------------------------------------------------------------------------
(* Bounds of the model *)

MaxNoticias == 2
MaxFuentes == 2

-----------------------------------------------------------------------------
(* Program constants *)

UmbralTitular == 50

SinDescripcion == "Sin descripcion"

RUTA_BRONZE_NOTICIAS == "top_stories"
RUTA_BRONZE_FUENTES == "sources"
RUTA_SILVER_NOTICIAS_ENRIQUECIDAS == "top_stories_enriched"
RUTA_GOLD_CONTEO_POR_FUENTE == "news_count_by_source"

Rutas == {RUTA_BRONZE_NOTICIAS, RUTA_BRONZE_FUENTES,
          RUTA_SILVER_NOTICIAS_ENRIQUECIDAS, RUTA_GOLD_CONTEO_POR_FUENTE}

-----------------------------------------------------------------------------
(* Values and pandas primitives *)

NoneVal == "<None>"     \* Python None held in an object column
NaNVal == "<NaN>"       \* float NaN, what a left merge puts where nothing matched

\* pd.isna
IsNull(v) == v \in {NoneVal, NaNVal}

\* Series.astype(str) on one value of an object column: str(None), str(nan)
AsStr(v) == IF v = NoneVal THEN "None" ELSE IF v = NaNVal THEN "nan" ELSE v

\* Series.fillna(x) on one value
FillNa(v, x) == IF IsNull(v) THEN x ELSE v

\* pd.DataFrame()
DataFrameVacio == [cols |-> {}, rows |-> <<>>]

\* DataFrame.empty
Empty(df) == df.cols = {} \/ Len(df.rows) = 0

RECURSIVE SeqMap(_, _)
\* the rows of s, each replaced by Op(row)
SeqMap(Op(_), s) == IF s = <<>> THEN <<>> ELSE <<Op(Head(s))>> \o SeqMap(Op, Tail(s))

RECURSIVE SeqConcat(_)
\* the concatenation of a sequence of sequences
SeqConcat(ss) == IF ss = <<>> THEN <<>> ELSE Head(ss) \o SeqConcat(Tail(ss))

\* the set of values of s
Range(s) == {s[i] : i \in DOMAIN s}

\* all sequences over S of length lo..hi
SeqsOf(S, lo, hi) == UNION {[1..n -> S] : n \in lo..hi}

-----------------------------------------------------------------------------
(* Delta tables *)

NoTable == [existe |-> FALSE, cols |-> {}, rows |-> <<>>]

TableOf(df) == [existe |-> TRUE, cols |-> df.cols, rows |-> df.rows]

\* DeltaTable(ruta).to_pandas(), for a table that exists
ToPandas(t) == [cols |-> t.cols, rows |-> t.rows]

\* the columns guardar_en_delta_lake finds with dtype object (or datetime64)
ObjectCols == {"uuid", "description", "source", "fuente_id", "fuente_nombre",
               "source_id", "domain"}

LimpiarFila(r) == [f \in DOMAIN r |-> IF f \in ObjectCols THEN AsStr(r[f]) ELSE r[f]]

\* df_limpio of guardar_en_delta_lake
Limpiar(df) == [cols |-> df.cols, rows |-> SeqMap(LimpiarFila, df.rows)]

\* write_deltalake raises: a storage error, a partition column that is not
\* in the schema, or data whose schema differs from the table's (no
\* schema_mode is passed, in either mode)
WriteRaises(t, df, modo, particionado_por, falla) ==
    \/ falla = "write"
    \/ ~(particionado_por \subseteq df.cols)
    \/ t.existe /\ t.cols # df.cols

\* the table after a write_deltalake that does not raise
WriteDeltalake(t, df, modo) ==
    IF modo = "append" /\ t.existe
    THEN [t EXCEPT !.rows = t.rows \o df.rows]
    ELSE TableOf(df)

\* the record json.dump writes in _guardar_metadatos_pipeline
Metadatos(nombre_tabla, num_registros, ruta_archivo, operacion) ==
    [nombre_tabla |-> nombre_tabla, cantidad_registros |-> num_registros,
     ruta_archivo |-> ruta_archivo, operacion |-> operacion,
     formato |-> "delta_lake"]

\* GuardarEnDeltaLake without the df.empty check of line 173
GuardarSinComprobarVacio(st, df, ruta, modo, particionado_por, falla) ==
    LET df_limpio == Limpiar(df) IN
    IF WriteRaises(st.tablas[ruta], df_limpio, modo, particionado_por, falla)
    THEN st
    ELSE LET escrito == [st.tablas EXCEPT ![ruta] = WriteDeltalake(@, df_limpio, modo)] IN
         IF falla = "meta"
         THEN [st EXCEPT !.tablas = escrito]
         ELSE [tablas |-> escrito,
               logs |-> Append(st.logs,
                          Metadatos(ruta, Len(df_limpio.rows), ruta, modo))]

\* GuardarEnDeltaLake with the metadata record written before write_deltalake
\* is called: the record stays when the table write raises
GuardarMetadatosAntes(st, df, ruta, modo, particionado_por, falla) ==
    IF Empty(df) THEN st
    ELSE LET df_limpio == Limpiar(df)
             anotado == IF falla = "meta" THEN st.logs
                        ELSE Append(st.logs,
                                Metadatos(ruta, Len(df_limpio.rows), ruta, modo))
         IN
         IF WriteRaises(st.tablas[ruta], df_limpio, modo, particionado_por, falla)
         THEN [st EXCEPT !.logs = anotado]
         ELSE [tablas |-> [st.tablas EXCEPT ![ruta] = WriteDeltalake(@, df_limpio, modo)],
               logs |-> anotado]

\* guardar_en_delta_lake(df, ruta, modo, particionado_por) on the store
\* st = [tablas, logs]; falla is what the environment does in this call:
\* "ok", "write" (write_deltalake raises) or "meta" (the metadata file cannot
\* be written).  Every exception is caught: the call returns nothing.
GuardarEnDeltaLake(st, df, ruta, modo, particionado_por, falla) ==
    IF Empty(df) THEN st
    ELSE LET df_limpio == Limpiar(df) IN
         IF WriteRaises(st.tablas[ruta], df_limpio, modo, particionado_por, falla)
         THEN st
         ELSE LET escrito == [st.tablas EXCEPT ![ruta] = WriteDeltalake(@, df_limpio, modo)] IN
              IF falla = "meta"
              THEN [st EXCEPT !.tablas = escrito]
              ELSE [tablas |-> escrito,
                    logs |-> Append(st.logs,
                               Metadatos(ruta, Len(df_limpio.rows), ruta, modo))]

-----------------------------------------------------------------------------
(* procesar_y_enriquecer_datos *)

\* the indices drop_duplicates(subset=['uuid']) keeps: the first row of each uuid
Keeps(rows, i) == \A j \in 1..(i - 1) : rows[j].uuid # rows[i].uuid

RECURSIVE DropFrom(_, _)
\* the kept rows among rows[i..], in order
DropFrom(rows, i) ==
    IF i > Len(rows) THEN <<>>
    ELSE (IF Keeps(rows, i) THEN <<rows[i]>> ELSE <<>>) \o DropFrom(rows, i + 1)

\* df.drop_duplicates(subset=['uuid'])
DropDuplicates(rows) == DropFrom(rows, 1)

\* transformations 2 to 5 on one news row: rename source -> fuente_id,
\* es_titular_corto, description filled
Transformar(n) ==
    [uuid |-> n.uuid, title |-> n.title,
     description |-> FillNa(n.description, SinDescripcion),
     fuente_id |-> n.source,
     es_titular_corto |-> (n.title < UmbralTitular)]

\* a transformed news row with the joined column
ConFuente(n, nombre) ==
    [uuid |-> n.uuid, title |-> n.title, description |-> n.description,
     fuente_id |-> n.fuente_id, es_titular_corto |-> n.es_titular_corto,
     fuente_nombre |-> nombre]

\* MergeFila as how='inner' would have it: a row without a source is dropped
MergeFilaInner(n, fuentes) ==
    SeqMap(LAMBDA f : ConFuente(n, f.domain),
           SelectSeq(fuentes, LAMBDA f : f.source_id = n.fuente_id))

\* the rows pd.merge(how='left', on='fuente_id') gives for one left row: one
\* per matching right row, in the right order; one with NaN when none matches
MergeFila(n, fuentes) ==
    LET m == SelectSeq(fuentes, LAMBDA f : f.source_id = n.fuente_id) IN
    IF m = <<>> THEN <<ConFuente(n, NaNVal)>>
    ELSE SeqMap(LAMBDA f : ConFuente(n, f.domain), m)

\* pd.merge(df_noticias, df_fuentes[columnas_a_unir], on='fuente_id', how='left')
MergeLeft(noticias, fuentes) ==
    SeqConcat(SeqMap(LAMBDA n : MergeFila(n, fuentes), noticias))

ColsNoticias == {"uuid", "title", "description", "source"}
ColsFuentes == {"source_id", "domain"}

\* the columns of df_enriquecido
ColsEnriquecido(cols_noticias, cols_fuentes) ==
    ((cols_noticias \ {"source"})
        \cup {"fuente_id", "es_titular_corto", "fuente_nombre"})
    \cup (cols_fuentes \cap {"categories"})

\* df_enriquecido, from the two DataFrames read
Enriquecer(noticias, fuentes) ==
    [cols |-> ColsEnriquecido(noticias.cols, fuentes.cols),
     rows |-> MergeLeft(SeqMap(Transformar, DropDuplicates(noticias.rows)),
                        fuentes.rows)]

\* what procesar_y_enriquecer_datos returns (ret), leaves in the store (st)
\* and logs: "vacia" (the warning of line 200), "error" (the except branch) or
\* "join" (transformation 6 completed).  leer is what the environment does to
\* the reads: "ok", "noticias" or "fuentes" (that DeltaTable(...) raises);
\* falla is as in GuardarEnDeltaLake.
ProcesarYEnriquecerDatos(st, leer, falla) ==
    LET tn == st.tablas[RUTA_BRONZE_NOTICIAS]
        tf == st.tablas[RUTA_BRONZE_FUENTES]
        error == [ret |-> DataFrameVacio, st |-> st, log |-> "error"]
    IN
    IF ~tn.existe \/ leer = "noticias" THEN error
    ELSE IF Empty(ToPandas(tn))
    THEN [ret |-> DataFrameVacio, st |-> st, log |-> "vacia"]
    ELSE IF ~(ColsNoticias \subseteq tn.cols) THEN error
    ELSE IF ~tf.existe \/ leer = "fuentes" THEN error
    ELSE IF ~(ColsFuentes \subseteq tf.cols) THEN error
    ELSE LET df_enriquecido == Enriquecer(ToPandas(tn), ToPandas(tf)) IN
         [ret |-> df_enriquecido, log |-> "join",
          st |-> GuardarEnDeltaLake(st, df_enriquecido,
                    RUTA_SILVER_NOTICIAS_ENRIQUECIDAS, "overwrite",
                    {"fecha_particion"}, falla)]

-----------------------------------------------------------------------------
(* agregar_datos *)

Domains == {"A", "B"}

\* the display names in the order groupby sorts them
OrdenNombres == <<"A", "B">>

\* agg(cantidad_noticias=('uuid', 'count')) for one group
Cuenta(rows, k) ==
    Cardinality({i \in DOMAIN rows : rows[i].fuente_nombre = k /\ ~IsNull(rows[i].uuid)})

\* groupby('fuente_nombre') keeps the non-null keys that occur
GroupKeys(rows) ==
    SelectSeq(OrdenNombres, LAMBDA k : \E i \in DOMAIN rows : rows[i].fuente_nombre = k)

\* df_procesado.groupby('fuente_nombre').agg(...).reset_index()
GroupByFuenteNombre(df) ==
    [cols |-> {"fuente_nombre", "cantidad_noticias"},
     rows |-> SeqMap(LAMBDA k : [fuente_nombre |-> k,
                                 cantidad_noticias |-> Cuenta(df.rows, k)],
                     GroupKeys(df.rows))]

\* what agregar_datos computes and leaves in the store
AgregarDatos(st, df_proc, falla) ==
    IF Empty(df_proc) THEN [agg |-> DataFrameVacio, st |-> st]
    ELSE IF ~({"fuente_nombre", "uuid"} \subseteq df_proc.cols)
    THEN [agg |-> DataFrameVacio, st |-> st]
    ELSE LET agg == GroupByFuenteNombre(df_proc) IN
         [agg |-> agg,
          st |-> GuardarEnDeltaLake(st, agg, RUTA_GOLD_CONTEO_POR_FUENTE,
                                    "overwrite", {}, falla)]

-----------------------------------------------------------------------------
(* extraer_noticias_principales, extraer_fuentes *)

\* what session.get / raise_for_status / response.json() can give
Respuestas == {"red", "http", "sin_data", "ok"}

\* the DataFrame extraer_noticias_principales returns for a response
ExtraerNoticiasPrincipales(respuesta, data) ==
    IF respuesta # "ok" THEN DataFrameVacio
    ELSE [cols |-> data.cols
                   \cup {"fecha_extraccion", "endpoint_origen", "pais_consulta",
                         "idioma_consulta"}
                   \cup (IF data.cols \cap {"published_on", "published_at"} # {}
                         THEN {"fecha_publicacion", "fecha_particion"} ELSE {}),
          rows |-> data.rows]

\* ExtraerFuentes without raise_for_status: the body of a non-2xx answer is
\* taken as data
ExtraerFuentesSinStatus(respuesta, data) ==
    IF respuesta \in {"red", "sin_data"} THEN DataFrameVacio
    ELSE [cols |-> data.cols \cup {"fecha_extraccion", "endpoint_origen"},
          rows |-> data.rows]

\* the DataFrame extraer_fuentes returns for a response
ExtraerFuentes(respuesta, data) ==
    IF respuesta # "ok" THEN DataFrameVacio
    ELSE [cols |-> data.cols \cup {"fecha_extraccion", "endpoint_origen"},
          rows |-> data.rows]

\* len(df_procesado.groupby('fuente_id')): the distinct non-null fuente_id
NumGruposFuenteId(df) ==
    Cardinality({df.rows[i].fuente_id : i \in DOMAIN df.rows} \ {NoneVal, NaNVal})

\* Resumen with fuentes_agregadas taken from the extracted sources
ResumenDeFuentes(noticias, fuentes, procesado) ==
    [noticias_extraidas |-> Len(noticias.rows),
     fuentes_extraidas |-> Len(fuentes.rows),
     noticias_procesadas |-> Len(procesado.rows),
     fuentes_agregadas |-> Len(fuentes.rows)]

\* the dict ejecutar_pipeline returns
Resumen(noticias, fuentes, procesado) ==
    [noticias_extraidas |-> Len(noticias.rows),
     fuentes_extraidas |-> Len(fuentes.rows),
     noticias_procesadas |-> Len(procesado.rows),
     fuentes_agregadas |-> IF Empty(procesado) THEN 0 ELSE NumGruposFuenteId(procesado)]

-----------------------------------------------------------------------------
(* Inputs *)

Uuids == {"u1", "u2"}
SourceIds == {"s1", "s2"}

\* the two kinds of story the API returns here: a short title without
\* description from source s1, a long title with description from source s2
Variantes == {[title |-> 10, description |-> NoneVal, source |-> "s1"],
              [title |-> 60, description |-> "d", source |-> "s2"]}

Noticia(u, v) ==
    [uuid |-> u, title |-> v.title, description |-> v.description, source |-> v.source]

NewsRecords == {Noticia(u, v) : u \in Uuids, v \in Variantes}

\* the sources: s1 under two display names, s2 sharing one of them
FuenteRecords ==
    {[source_id |-> "s1", domain |-> "A"], [source_id |-> "s1", domain |-> "B"],
     [source_id |-> "s2", domain |-> "A"]}

\* the DataFrames the tests hand to guardar_en_delta_lake as raw news
NoticiasDataFrames ==
    {DataFrameVacio} \cup
    {[cols |-> c, rows |-> r] :
        c \in {ColsNoticias, ColsNoticias \cup {"fecha_particion"}},
        r \in SeqsOf(NewsRecords, 0, MaxNoticias)}

\* the DataFrames the tests hand to guardar_en_delta_lake as raw sources
FuentesDataFrames ==
    {[cols |-> ColsFuentes \cup {"categories"}, rows |-> r] :
        r \in SeqsOf(FuenteRecords, 0, MaxFuentes)}

\* the "data" arrays /news/top answers with
ApiNoticias ==
    LET corta == CHOOSE v \in Variantes : v.source = "s1"
        larga == CHOOSE v \in Variantes : v.source = "s2"
    IN {[cols |-> {}, rows |-> <<>>],
        [cols |-> ColsNoticias \cup {"published_at"},
         rows |-> <<Noticia("u1", corta)>>],
        [cols |-> ColsNoticias \cup {"published_at"},
         rows |-> <<Noticia("u1", corta), Noticia("u2", larga)>>],
        [cols |-> ColsNoticias,
         rows |-> <<Noticia("u2", larga)>>]}

\* the "data" arrays /news/sources answers with
ApiFuentes ==
    {[cols |-> ColsFuentes \cup {"categories"},
      rows |-> <<[source_id |-> "s1", domain |-> "A"]>>],
     [cols |-> ColsFuentes \cup {"categories"},
      rows |-> <<[source_id |-> "s1", domain |-> "A"],
                 [source_id |-> "s2", domain |-> "A"]>>],
     [cols |-> ColsFuentes \cup {"categories"},
      rows |-> <<[source_id |-> "s1", domain |-> "A"],
                 [source_id |-> "s1", domain |-> "B"]>>]}

Fallas == {"ok", "write", "meta"}
Lecturas == {"ok", "noticias", "fuentes"}
Modos == {"append", "overwrite"}

-----------------------------------------------------------------------------
(* The calls, as the caller sees them *)

Store == [tablas |-> tablas, logs |-> logs]

\* what guardar_en_delta_lake logs: the warning of the empty DataFrame, the
\* error of the except branch, or the info lines of the write and the metadata
ResultadoGuardar(st, df, ruta, modo, particionado_por, falla) ==
    IF Empty(df) THEN "omitido"
    ELSE IF WriteRaises(st.tablas[ruta], Limpiar(df), modo, particionado_por, falla)
    THEN "error_escritura"
    ELSE IF falla = "meta" THEN "error_metadatos"
    ELSE "guardado"

\* the record of a call: the operation, the table it writes, whether its
\* input was empty, the mode, whether a partition column it names is missing
\* from the DataFrame, the storage error of the environment, what it logged
Ultima(op, ruta, vacio, modo, sin_particion, falla, resultado) ==
    [op |-> op, ruta |-> ruta, entrada_vacia |-> vacio, modo |-> modo,
     sin_particion |-> sin_particion, falla |-> falla, resultado |-> resultado]

\* a record for the steps that call no storage operation
UltimaSimple(op, resultado) == Ultima(op, "", FALSE, "", FALSE, "ok", resultado)

\* self.guardar_en_delta_lake(df, ruta, modo, particionado_por)
LlamarGuardar(df, ruta, modo, particionado_por, falla) ==
    LET st == GuardarEnDeltaLake(Store, df, ruta, modo, particionado_por, falla) IN
    /\ tablas' = st.tablas
    /\ logs' = st.logs
    /\ ultima' = Ultima("guardar", ruta, Empty(df), modo,
                        ~Empty(df) /\ ~(particionado_por \subseteq df.cols),
                        IF Empty(df) THEN "ok" ELSE falla,
                        ResultadoGuardar(Store, df, ruta, modo, particionado_por, falla))

\* df_procesado = self.procesar_y_enriquecer_datos(bronze, bronze, silver)
LlamarProcesar(leer, falla) ==
    LET r == ProcesarYEnriquecerDatos(Store, leer, falla)
        tn == tablas[RUTA_BRONZE_NOTICIAS]
    IN
    /\ df_procesado' = r.ret
    /\ tablas' = r.st.tablas
    /\ logs' = r.st.logs
    /\ ultima' = Ultima("procesar", RUTA_SILVER_NOTICIAS_ENRIQUECIDAS,
                        ~tn.existe \/ Empty(ToPandas(tn)), "overwrite",
                        r.log = "join" /\ ~Empty(r.ret)
                            /\ "fecha_particion" \notin r.ret.cols,
                        IF r.log = "join" /\ ~Empty(r.ret) THEN falla ELSE "ok",
                        IF r.log = "join"
                        THEN ResultadoGuardar(Store, r.ret,
                                 RUTA_SILVER_NOTICIAS_ENRIQUECIDAS, "overwrite",
                                 {"fecha_particion"}, falla)
                        ELSE r.log)

\* self.agregar_datos(df_procesado, gold)
LlamarAgregar(falla) ==
    LET r == AgregarDatos(Store, df_procesado, falla) IN
    /\ df_agregado' = r.agg
    /\ tablas' = r.st.tablas
    /\ logs' = r.st.logs
    /\ ultima' = Ultima("agregar", RUTA_GOLD_CONTEO_POR_FUENTE,
                        Empty(df_procesado), "overwrite", FALSE,
                        IF Empty(r.agg) THEN "ok" ELSE falla,
                        ResultadoGuardar(Store, r.agg, RUTA_GOLD_CONTEO_POR_FUENTE,
                                         "overwrite", {}, falla))

-----------------------------------------------------------------------------
(* ejecutar_pipeline, one step per statement *)

Init ==
    /\ tablas = [r \in Rutas |-> NoTable]
    /\ logs = <<>>
    /\ pc = "Init"
    /\ df_noticias = DataFrameVacio
    /\ df_fuentes = DataFrameVacio
    /\ df_procesado = DataFrameVacio
    /\ df_agregado = DataFrameVacio
    /\ resultados = <<>>
    /\ ultima = UltimaSimple("init", "")

\* main(): a PipelineDeNoticias is built over the data lake, as the earlier
\* runs left it, and ejecutar_pipeline is called
IniciarPipeline ==
    /\ pc \in {"Init", "Done"}
    /\ pc' = "ExtractingNoticias"
    /\ df_noticias' = DataFrameVacio
    /\ df_fuentes' = DataFrameVacio
    /\ df_procesado' = DataFrameVacio
    /\ df_agregado' = DataFrameVacio
    /\ resultados' = <<>>
    /\ ultima' = UltimaSimple("ejecutar_pipeline", "")
    /\ logs' = <<>>
    /\ UNCHANGED tablas

PasoExtraerNoticias ==
    /\ pc = "ExtractingNoticias"
    /\ \E respuesta \in Respuestas, data \in ApiNoticias :
          /\ df_noticias' = ExtraerNoticiasPrincipales(respuesta, data)
          /\ ultima' = UltimaSimple("extraer_noticias", respuesta)
    /\ pc' = "RawPersistingNoticias"
    /\ UNCHANGED <<tablas, logs, df_fuentes, df_procesado, df_agregado, resultados>>

\* PasoGuardarNoticias returning early, without a summary, when nothing was
\* extracted
PasoGuardarNoticiasAborta ==
    /\ pc = "RawPersistingNoticias"
    /\ IF ~Empty(df_noticias)
       THEN /\ \E falla \in Fallas :
                  LlamarGuardar(df_noticias, RUTA_BRONZE_NOTICIAS, "overwrite",
                                {"fecha_particion"}, falla)
            /\ pc' = "ExtractingFuentes"
       ELSE /\ UNCHANGED <<tablas, logs, ultima>>
            /\ pc' = "Done"
    /\ UNCHANGED <<df_noticias, df_fuentes, df_procesado, df_agregado, resultados>>

PasoGuardarNoticias ==
    /\ pc = "RawPersistingNoticias"
    /\ IF ~Empty(df_noticias)
       THEN \E falla \in Fallas :
               LlamarGuardar(df_noticias, RUTA_BRONZE_NOTICIAS, "overwrite",
                             {"fecha_particion"}, falla)
       ELSE UNCHANGED <<tablas, logs, ultima>>
    /\ pc' = "ExtractingFuentes"
    /\ UNCHANGED <<df_noticias, df_fuentes, df_procesado, df_agregado, resultados>>

PasoExtraerFuentes ==
    /\ pc = "ExtractingFuentes"
    /\ \E respuesta \in Respuestas, data \in ApiFuentes :
          /\ df_fuentes' = ExtraerFuentes(respuesta, data)
          /\ ultima' = UltimaSimple("extraer_fuentes", respuesta)
    /\ pc' = "RawPersistingFuentes"
    /\ UNCHANGED <<tablas, logs, df_noticias, df_procesado, df_agregado, resultados>>

PasoGuardarFuentes ==
    /\ pc = "RawPersistingFuentes"
    /\ IF ~Empty(df_fuentes)
       THEN \E falla \in Fallas :
               LlamarGuardar(df_fuentes, RUTA_BRONZE_FUENTES, "overwrite",
                             df_fuentes.cols \cap {"categories"}, falla)
       ELSE UNCHANGED <<tablas, logs, ultima>>
    /\ pc' = "Enriching"
    /\ UNCHANGED <<df_noticias, df_fuentes, df_procesado, df_agregado, resultados>>

PasoProcesar ==
    /\ pc = "Enriching"
    /\ \E leer \in Lecturas, falla \in Fallas : LlamarProcesar(leer, falla)
    /\ pc' = "Aggregating"
    /\ UNCHANGED <<df_noticias, df_fuentes, df_agregado, resultados>>

PasoAgregar ==
    /\ pc = "Aggregating"
    /\ \E falla \in Fallas : LlamarAgregar(falla)
    /\ pc' = "Returning"
    /\ UNCHANGED <<df_noticias, df_fuentes, df_procesado, resultados>>

PasoResumen ==
    /\ pc = "Returning"
    /\ resultados' = <<Resumen(df_noticias, df_fuentes, df_procesado)>>
    /\ pc' = "Done"
    /\ ultima' = UltimaSimple("resumen", "")
    /\ UNCHANGED <<tablas, logs, df_noticias, df_fuentes, df_procesado, df_agregado>>

Next ==
    \/ IniciarPipeline
    \/ PasoExtraerNoticias
    \/ PasoGuardarNoticias
    \/ PasoExtraerFuentes
    \/ PasoGuardarFuentes
    \/ PasoProcesar
    \/ PasoAgregar
    \/ PasoResumen

Spec == Init /\ [][Next]_vars

\* ejecutar_pipeline is straight-line code: a step that can be taken is taken
FairSpec == Spec /\ WF_vars(Next)

-----------------------------------------------------------------------------
(* The operations called one by one over a data lake, as tests/ do:        *)
(* guardar_en_delta_lake for the raw news, for the raw sources, then       *)
(* procesar_y_enriquecer_datos, then agregar_datos or                      *)
(* procesar_y_enriquecer_datos once more                                   *)

\* a raw news table an earlier writer left at RUTA_BRONZE_NOTICIAS
TablaPrevia ==
    TableOf(Limpiar([cols |-> ColsNoticias \cup {"fecha_particion"},
                     rows |-> <<Noticia("u2", CHOOSE v \in Variantes : v.source = "s2")>>]))

\* a Delta table without rows, the case of line 199
TablaSinFilas ==
    [existe |-> TRUE, cols |-> ColsNoticias \cup {"fecha_particion"}, rows |-> <<>>]

InitOps ==
    /\ \E t \in {NoTable, TablaSinFilas, TablaPrevia} :
          tablas = [r \in Rutas |-> IF r = RUTA_BRONZE_NOTICIAS THEN t ELSE NoTable]
    /\ logs = <<>>
    /\ pc = "t_guardar_noticias"
    /\ df_noticias = DataFrameVacio
    /\ df_fuentes = DataFrameVacio
    /\ df_procesado = DataFrameVacio
    /\ df_agregado = DataFrameVacio
    /\ resultados = <<>>
    /\ ultima = UltimaSimple("init", "")

TestGuardarNoticias ==
    /\ pc = "t_guardar_noticias"
    /\ \E df \in NoticiasDataFrames, modo \in Modos,
          particionado_por \in {{}, {"fecha_particion"}}, falla \in Fallas :
          /\ df_noticias' = df
          /\ LlamarGuardar(df, RUTA_BRONZE_NOTICIAS, modo, particionado_por, falla)
    /\ pc' = "t_guardar_fuentes"
    /\ UNCHANGED <<df_fuentes, df_procesado, df_agregado, resultados>>

TestGuardarFuentes ==
    /\ pc = "t_guardar_fuentes"
    /\ \E df \in FuentesDataFrames :
          /\ df_fuentes' = df
          /\ LlamarGuardar(df, RUTA_BRONZE_FUENTES, "overwrite", {}, "ok")
    /\ pc' = "t_procesar"
    /\ UNCHANGED <<df_noticias, df_procesado, df_agregado, resultados>>

TestProcesar ==
    /\ pc = "t_procesar"
    /\ \E leer \in Lecturas, falla \in Fallas : LlamarProcesar(leer, falla)
    /\ pc' = "t_agregar"
    /\ UNCHANGED <<df_noticias, df_fuentes, df_agregado, resultados>>

\* procesar_y_enriquecer_datos called a second time, right after the first,
\* over the same raw tables, both readable
TestProcesarOtraVez ==
    /\ pc = "t_agregar"
    /\ \E falla \in Fallas : LlamarProcesar("ok", falla)
    /\ pc' = "t_fin"
    /\ UNCHANGED <<df_noticias, df_fuentes, df_agregado, resultados>>

TestAgregar ==
    /\ pc = "t_agregar"
    /\ \E falla \in Fallas : LlamarAgregar(falla)
    /\ pc' = "t_fin"
    /\ UNCHANGED <<df_noticias, df_fuentes, df_procesado, resultados>>

NextOps ==
    \/ TestGuardarNoticias
    \/ TestGuardarFuentes
    \/ TestProcesar
    \/ TestProcesarOtraVez
    \/ TestAgregar

SpecOps == InitOps /\ [][NextOps]_vars

-----------------------------------------------------------------------------
(* Properties *)

\* procesar_y_enriquecer_datos has just returned after completing its join
JoinHecho == ultima.op = "procesar" /\ ultima.resultado \notin {"error", "vacia"}

\* the raw tables procesar_y_enriquecer_datos read (it does not write them)
Crudas == tablas[RUTA_BRONZE_NOTICIAS].rows
FuentesCrudas == tablas[RUTA_BRONZE_FUENTES].rows

\* row k is the first row of its uuid
EsPrimera(rows, k) == \A j \in DOMAIN rows : j < k => rows[j].uuid # rows[k].uuid

RECURSIVE SumaCantidades(_)
SumaCantidades(rows) ==
    IF rows = <<>> THEN 0 ELSE Head(rows).cantidad_noticias + SumaCantidades(Tail(rows))

\* C1: the Dataset procesar_y_enriquecer_datos returns holds exactly one
\* record per distinct uuid of the raw news, and that record carries the
\* fields of the first raw row of that uuid, whatever the raw sources are
C1_UnRegistroPorUuid ==
    JoinHecho =>
        LET filas == df_procesado.rows IN
        /\ \A u \in {Crudas[k].uuid : k \in DOMAIN Crudas} :
              Cardinality({i \in DOMAIN filas : filas[i].uuid = u}) = 1
        /\ \A i \in DOMAIN filas :
              \E k \in DOMAIN Crudas :
                 /\ EsPrimera(Crudas, k)
                 /\ Crudas[k].uuid = filas[i].uuid
                 /\ Crudas[k].title = filas[i].title
                 /\ Crudas[k].source = filas[i].fuente_id

\* C2: the left join drops no news record: every uuid of the raw news is in
\* the enriched Dataset; each enriched record's fuente_nombre is the domain of
\* a source whose source_id is its fuente_id, and null when there is none
C2_JoinConservaNoticias ==
    JoinHecho =>
        LET filas == df_procesado.rows IN
        /\ \A k \in DOMAIN Crudas :
              \E i \in DOMAIN filas :
                 /\ filas[i].uuid = Crudas[k].uuid
                 /\ EsPrimera(Crudas, k) => filas[i].title = Crudas[k].title
        /\ \A i \in DOMAIN filas :
              LET m == {k \in DOMAIN FuentesCrudas :
                           FuentesCrudas[k].source_id = filas[i].fuente_id}
              IN IF m = {} THEN IsNull(filas[i].fuente_nombre)
                 ELSE \E k \in m : filas[i].fuente_nombre = FuentesCrudas[k].domain

\* a join in which one news record found its source and another found none
C2_Testigo ==
    /\ JoinHecho
    /\ \E i, j \in DOMAIN df_procesado.rows :
          /\ IsNull(df_procesado.rows[i].fuente_nombre)
          /\ ~IsNull(df_procesado.rows[j].fuente_nombre)

\* C3: the aggregate of a non-empty enriched Dataset has one row per distinct
\* fuente_nombre (the null one included) with the count of the enriched
\* records of that name, and the counts add up to the number of records
C3_AgregadoCuentaTodo ==
    (ultima.op = "agregar" /\ ~ultima.entrada_vacia) =>
        LET filas == df_procesado.rows
            agg == df_agregado.rows
        IN
        /\ {agg[i].fuente_nombre : i \in DOMAIN agg}
              = {filas[i].fuente_nombre : i \in DOMAIN filas}
        /\ \A i \in DOMAIN agg :
              agg[i].cantidad_noticias
                 = Cardinality({k \in DOMAIN filas :
                                  filas[k].fuente_nombre = agg[i].fuente_nombre})
        /\ SumaCantidades(agg) = Len(filas)

\* C4: a record saved to the raw table by guardar_en_delta_lake without
\* description comes out of procesar_y_enriquecer_datos with the placeholder;
\* a record saved with a description keeps it
C4_DescripcionPlaceholder ==
    (JoinHecho /\ Crudas = Limpiar(df_noticias).rows) =>
        \A i \in DOMAIN df_procesado.rows :
           \A k \in DOMAIN df_noticias.rows :
              (EsPrimera(df_noticias.rows, k)
                 /\ df_noticias.rows[k].uuid = df_procesado.rows[i].uuid)
              => df_procesado.rows[i].description
                    = (IF IsNull(df_noticias.rows[k].description)
                       THEN SinDescripcion
                       ELSE df_noticias.rows[k].description)

\* C5: the extractors return to their caller whatever the answer is, with an
\* empty Dataset when the request fails, the status is not 2xx or the body
\* has no 'data', and they leave every table and the logs as they were
C5_ExtraccionNoLanza ==
    [][/\ pc = "ExtractingNoticias" =>
            /\ pc' = "RawPersistingNoticias"
            /\ tablas' = tablas /\ logs' = logs
            /\ ultima'.resultado # "ok" => Empty(df_noticias')
       /\ pc = "ExtractingFuentes" =>
            /\ pc' = "RawPersistingFuentes"
            /\ tablas' = tablas /\ logs' = logs
            /\ ultima'.resultado # "ok" => Empty(df_fuentes')]_vars

\* extraer_fuentes has answered a body without 'data' over a lake that holds
\* the sources of an earlier run
C5_Testigo ==
    /\ pc = "RawPersistingFuentes"
    /\ ultima.op = "extraer_fuentes" /\ ultima.resultado = "sin_data"
    /\ Empty(df_fuentes)
    /\ tablas[RUTA_BRONZE_FUENTES].existe

\* the states of the orchestrator, in the order of the design
RangoEtapa(p) ==
    CASE p = "Init" -> 0
      [] p \in {"ExtractingNoticias", "ExtractingFuentes"} -> 1
      [] p \in {"RawPersistingNoticias", "RawPersistingFuentes"} -> 2
      [] p = "Enriching" -> 3
      [] p = "Aggregating" -> 4
      [] p \in {"Returning", "Done"} -> 5

\* the statement that follows each position of ejecutar_pipeline
Siguiente(p) ==
    CASE p \in {"Init", "Done"} -> "ExtractingNoticias"
      [] p = "ExtractingNoticias" -> "RawPersistingNoticias"
      [] p = "RawPersistingNoticias" -> "ExtractingFuentes"
      [] p = "ExtractingFuentes" -> "RawPersistingFuentes"
      [] p = "RawPersistingFuentes" -> "Enriching"
      [] p = "Enriching" -> "Aggregating"
      [] p = "Aggregating" -> "Returning"
      [] p = "Returning" -> "Done"

\* the run has returned the summary of four counts
ResumenDevuelto ==
    /\ Len(resultados) = 1
    /\ DOMAIN resultados[1] = {"noticias_extraidas", "fuentes_extraidas",
                               "noticias_procesadas", "fuentes_agregadas"}
    /\ \A k \in DOMAIN resultados[1] : resultados[1][k] \in Nat

\* C6, as claimed: every run ends in Done with the summary of four counts,
\* and the run goes once through Extracting, RawPersisting, Enriching,
\* Aggregating in that order, never back to an earlier stage
C6_EtapasUnaVez ==
    /\ (pc = "ExtractingNoticias") ~> (pc = "Done")
    /\ [](pc = "Done" => ResumenDevuelto)
    /\ [][pc' # pc =>
            \/ RangoEtapa(pc') = RangoEtapa(pc) + 1
            \/ RangoEtapa(pc') = RangoEtapa(pc)
            \/ pc = "Done" /\ pc' = "ExtractingNoticias"]_vars

\* C6, amended: every run ends in Done with the summary of four counts,
\* whatever fails, and its steps run once each in the order extract news,
\* persist raw news, extract sources, persist raw sources, enrich, aggregate,
\* each step complete (persistence included) before the next starts
C6_TerminaEnOrden ==
    /\ (pc = "ExtractingNoticias") ~> (pc = "Done")
    /\ [](pc = "Done" => ResumenDevuelto)
    /\ [][pc' # pc => pc' = Siguiente(pc)]_vars

\* a run that reached Done although nothing it extracted was persisted
C6_Testigo ==
    /\ pc = "Done"
    /\ ResumenDevuelto
    /\ resultados[1].noticias_extraidas > 0
    /\ resultados[1].noticias_procesadas = 0
    /\ logs = <<>>

Escrito == {"guardado", "error_metadatos"}

\* what C7 says of a run whose news extraction gave nothing
NadaAguasAbajo ==
    /\ pc = "Aggregating" => Empty(df_procesado) /\ ultima.resultado \notin Escrito
    /\ pc = "Returning" => ultima.entrada_vacia /\ ultima.resultado \notin Escrito
    /\ pc = "Done" => /\ resultados[1].noticias_procesadas = 0
                      /\ resultados[1].fuentes_agregadas = 0

\* C7, as claimed: when the news extraction of a run gives an empty Dataset,
\* over whatever earlier runs left in the lake, enrichment returns empty and
\* writes no Silver, aggregation gets empty input and writes no Gold, and
\* the run reports noticias_procesadas = 0 and fuentes_agregadas = 0
C7_VacioSePropaga ==
    (pc \in {"Aggregating", "Returning", "Done"} /\ Empty(df_noticias))
        => NadaAguasAbajo

\* C7, amended: the same, for a run over a lake without raw news table
C7_VacioSinBronze ==
    (pc \in {"Aggregating", "Returning", "Done"} /\ Empty(df_noticias)
        /\ ~tablas[RUTA_BRONZE_NOTICIAS].existe)
        => NadaAguasAbajo

\* a run that extracted no news but did extract and persist sources, over a
\* lake without raw news
C7_Testigo ==
    /\ pc = "Done"
    /\ Empty(df_noticias)
    /\ ~tablas[RUTA_BRONZE_NOTICIAS].existe
    /\ tablas[RUTA_BRONZE_FUENTES].existe
    /\ resultados[1].fuentes_extraidas > 0

\* C8: a non-empty Dataset returned by procesar_y_enriquecer_datos has been
\* persisted at the output path
C8_RetornoImplicaPersistido ==
    (ultima.op = "procesar" /\ ~Empty(df_procesado)) =>
        tablas[RUTA_SILVER_NOTICIAS_ENRIQUECIDAS] = TableOf(Limpiar(df_procesado))

\* C9: a write partitioned by a column the dataset does not have, and hit by
\* no storage error, persists the dataset; the enriched Dataset of raw news
\* without fecha_particion is in Silver
C9_ParticionAusenteSePersiste ==
    (ultima.op \in {"guardar", "procesar"} /\ ultima.sin_particion
        /\ ultima.falla = "ok" /\ ultima.modo = "overwrite")
    => /\ ultima.resultado = "guardado"
       /\ ultima.op = "procesar" =>
             tablas[RUTA_SILVER_NOTICIAS_ENRIQUECIDAS] = TableOf(Limpiar(df_procesado))

\* C10: a call of guardar_en_delta_lake with an empty dataset, of
\* procesar_y_enriquecer_datos over a raw news table that is empty or absent,
\* or of agregar_datos with an empty Dataset returns to its caller and leaves
\* the tables and the logs as they were
C10_VacioNoEscribe ==
    [][(pc' # pc /\ ultima'.op \in {"guardar", "procesar", "agregar"}
          /\ ultima'.entrada_vacia)
       => (tablas' = tablas /\ logs' = logs)]_vars

\* guardar_en_delta_lake was called with an empty dataset in overwrite mode
\* over the raw news table an earlier writer left
C10_Testigo ==
    /\ ultima.op = "guardar" /\ ultima.entrada_vacia /\ ultima.modo = "overwrite"
    /\ ultima.ruta = RUTA_BRONZE_NOTICIAS
    /\ tablas[RUTA_BRONZE_NOTICIAS] = TablaPrevia

\* the Silver table holds exactly the cleaned records of the Dataset returned
SilverDeUnaCorrida ==
    tablas'[RUTA_SILVER_NOTICIAS_ENRIQUECIDAS] = TableOf(Limpiar(df_procesado'))

\* the second of two calls in a row, both completing the join and neither hit
\* by a storage error
DosVecesSinFallas ==
    /\ pc = "t_agregar" /\ pc' = "t_fin" /\ ultima'.op = "procesar"
    /\ JoinHecho /\ ultima.falla = "ok"
    /\ ultima'.resultado \notin {"error", "vacia"} /\ ultima'.falla = "ok"

\* C11: procesar_y_enriquecer_datos run twice in a row over the same raw
\* tables returns identical Datasets, and after the second run the Silver
\* table holds exactly the records of one run
C11_Idempotente ==
    [][DosVecesSinFallas =>
          /\ df_procesado' = df_procesado
          /\ SilverDeUnaCorrida]_vars

\* C12: the fuentes_agregadas of the summary ejecutar_pipeline returns is the
\* number of aggregate records agregar_datos produced in that run, one per
\* distinct fuente_nombre of the enriched Dataset
C12_FuentesAgregadasEsAgregado ==
    (pc = "Done" /\ Len(resultados) = 1) =>
        resultados[1].fuentes_agregadas = Len(df_agregado.rows)

\* a step in which guardar_en_delta_lake was called, by the caller or inside
\* procesar_y_enriquecer_datos or agregar_datos
PasoConGuardar == pc' # pc /\ ultima'.op \in {"guardar", "procesar", "agregar"}

\* the number of records the call of this step wrote to its table
RegistrosEscritos ==
    LET antes == tablas[ultima'.ruta]
        despues == tablas'[ultima'.ruta]
    IN IF ultima'.modo = "append" /\ antes.existe
       THEN Len(despues.rows) - Len(antes.rows)
       ELSE Len(despues.rows)

\* the call of this step wrote one metadata record, after the older ones,
\* with the table name, the count written, the path and the mode
UnRegistroDeMetadatos ==
    /\ Len(logs') = Len(logs) + 1
    /\ SubSeq(logs', 1, Len(logs)) = logs
    /\ LET m == logs'[Len(logs')] IN
          /\ m.nombre_tabla = ultima'.ruta
          /\ m.cantidad_registros = RegistrosEscritos
          /\ m.ruta_archivo = ultima'.ruta
          /\ m.operacion = ultima'.modo

\* C13, as claimed: every guardar_en_delta_lake call whose table write
\* succeeds writes one metadata record (table name, count written, path,
\* mode); a call that is skipped or whose table write fails writes none, so
\* no record is written before the table write
C13_MetadatosPorEscritura ==
    [][PasoConGuardar =>
          IF ultima'.resultado \in Escrito
          THEN UnRegistroDeMetadatos
          ELSE logs' = logs]_vars

\* C13, amended: the same, except that a call whose table write succeeds and
\* whose metadata file cannot be written leaves the table written and no
\* metadata record
C13_MetadatosSalvoFallo ==
    [][PasoConGuardar =>
          /\ ultima'.resultado = "guardado" => UnRegistroDeMetadatos
          /\ ultima'.resultado = "error_metadatos" =>
                /\ logs' = logs
                /\ tablas'[ultima'.ruta].existe
                /\ RegistrosEscritos > 0
          /\ ultima'.resultado \notin Escrito =>
                /\ logs' = logs
                /\ tablas' = tablas]_vars

\* an append over the raw news table an earlier writer left, recorded with
\* the count of the records appended, not of the table
C13_Testigo ==
    /\ ultima.op = "guardar" /\ ultima.modo = "append"
    /\ ultima.resultado = "guardado"
    /\ Len(logs) = 1
    /\ logs[1].operacion = "append"
    /\ logs[1].cantidad_registros = Len(df_noticias.rows)
    /\ Len(tablas[RUTA_BRONZE_NOTICIAS].rows) > Len(df_noticias.rows)

\* the dataset the last call handed to guardar_en_delta_lake
DatasetGuardado ==
    CASE ultima.op = "guardar" /\ ultima.ruta = RUTA_BRONZE_NOTICIAS -> df_noticias
      [] ultima.op = "guardar" /\ ultima.ruta = RUTA_BRONZE_FUENTES -> df_fuentes
      [] ultima.op = "procesar" -> df_procesado
      [] ultima.op = "agregar" -> df_agregado

\* the value the normalization is said to store for v in an object column
Normalizado(v) == IF IsNull(v) THEN "" ELSE v

\* C14: every dataset guardar_en_delta_lake writes, in append or overwrite
\* mode, is normalized first: the records it adds to the table have no null,
\* a null of an object column is stored as the empty string, and every
\* value that is not null is stored as it is
C14_EscritoNormalizado ==
    (ultima.op \in {"guardar", "procesar", "agregar"} /\ ultima.resultado \in Escrito) =>
        LET df == DatasetGuardado
            t == tablas[ultima.ruta]
            base == Len(t.rows) - Len(df.rows)
        IN
        /\ base >= 0
        /\ \A i \in DOMAIN df.rows :
              /\ DOMAIN t.rows[base + i] = DOMAIN df.rows[i]
              /\ \A f \in DOMAIN df.rows[i] :
                    IF f \in ObjectCols
                    THEN /\ ~IsNull(t.rows[base + i][f])
                         /\ t.rows[base + i][f] = Normalizado(df.rows[i][f])
                    ELSE t.rows[base + i][f] = df.rows[i][f]

\* the number of records of the Silver table whose fuente_nombre is k
EnSilver(k) ==
    LET filas == tablas[RUTA_SILVER_NOTICIAS_ENRIQUECIDAS].rows IN
    Cardinality({i \in DOMAIN filas : filas[i].fuente_nombre = k})

\* the cantidad_noticias the Gold table gives for k, 0 when it has no row for k
EnGold(k) ==
    LET filas == tablas[RUTA_GOLD_CONTEO_POR_FUENTE].rows
        de_k == {i \in DOMAIN filas : filas[i].fuente_nombre = k}
    IN IF de_k = {} THEN 0 ELSE filas[CHOOSE i \in de_k : TRUE].cantidad_noticias

\* C15: after any sequence of completed runs, once Gold has been written, the
\* Gold table is the count per fuente_nombre of the Dataset stored in Silver
C15_GoldCuentaSilver ==
    (pc = "Done" /\ tablas[RUTA_GOLD_CONTEO_POR_FUENTE].existe) =>
        \A k \in Domains : EnGold(k) = EnSilver(k)

====
